---- MODULE Spec2Model ----
(***************************************************************************)
(* A model of the tsz time-series codec: StdEncoder (encode/std_encoder.rs),*)
(* StdDecoder (decode/std_decoder.rs) and the three value predictors       *)
(* (predictor.rs).                                                         *)
(*                                                                         *)
(* A u64 is the sequence of its 8 bytes, so that every operation keeps    *)
(* its 64-bit width.  A DataPoint's i64 value is                           *)
(* carried as its bit pattern (mem::transmute::<i64, u64> keeps the bits). *)
(***************************************************************************)
EXTENDS Integers, Sequences, FiniteSets, TLC

(***************************************************************************)
(* 64-bit words.  A u64 is the sequence of its 8 bytes, most significant   *)
(* first; on the wire it is the sequence of its 64 bits, most significant  *)
(* first.  Every operation is computed byte by byte, modulo 2^64.          *)
(***************************************************************************)
W == 64

Pow2(n) == 2 ^ n

\* the element of a one-element set: TheOne({e : v \in {a}}) is e with v
\* standing for the value of a, which is then computed once
TheOne(S) == CHOOSE v \in S : TRUE

\* the 8 bits of each byte 0..255 (at index byte + 1), most significant first
ByteBits ==
    SubSeq([n \in 1..256 |->
               SubSeq([i \in 1..8 |-> ((n - 1) \div Pow2(8 - i)) % 2], 1, 8)],
           1, 256)

\* the byte that 8 bits, most significant first, spell
ByteVal(s) ==
    TheOne({128 * b[1] + 64 * b[2] + 32 * b[3] + 16 * b[4]
            + 8 * b[5] + 4 * b[6] + 2 * b[7] + b[8] : b \in {s}})

\* the word whose four 16-bit limbs, high to low, are a, b, c, d
W16(a, b, c, d) ==
    <<a \div 256, a % 256, b \div 256, b % 256, c \div 256, c % 256, d \div 256, d % 256>>

\* a u64 literal below 2^31
FromNat(n) == W16(0, 0, n \div 65536, n % 65536)

Zero64 == <<0, 0, 0, 0, 0, 0, 0, 0>>

One64 == <<0, 0, 0, 0, 0, 0, 0, 1>>

\* u64::max_value()
Max64 == <<255, 255, 255, 255, 255, 255, 255, 255>>

\* 64 zero bits
ZeroBits == SubSeq([i \in 1..W |-> 0], 1, W)

\* the 64 bits of a word, most significant first
ToBits(x) ==
    TheOne({ByteBits[a[1] + 1] \o ByteBits[a[2] + 1] \o ByteBits[a[3] + 1]
            \o ByteBits[a[4] + 1] \o ByteBits[a[5] + 1] \o ByteBits[a[6] + 1]
            \o ByteBits[a[7] + 1] \o ByteBits[a[8] + 1] : a \in {x}})

\* the word that 64 bits spell
FromBits(s) ==
    TheOne({<<ByteVal(SubSeq(b, 1, 8)), ByteVal(SubSeq(b, 9, 16)),
              ByteVal(SubSeq(b, 17, 24)), ByteVal(SubSeq(b, 25, 32)),
              ByteVal(SubSeq(b, 33, 40)), ByteVal(SubSeq(b, 41, 48)),
              ByteVal(SubSeq(b, 49, 56)), ByteVal(SubSeq(b, 57, 64))>> : b \in {s}})

\* the low n bits of a word, most significant first
LowBits(x, n) == SubSeq(ToBits(x), W - n + 1, W)

\* a bit sequence of at most 64 bits zero-extended to a word
ZeroExtend(s) == TheOne({FromBits(SubSeq(ZeroBits, 1, W - Len(b)) \o b) : b \in {s}})

\* the value of a word below 2^31
ToNat(x) == TheOne({((a[5] * 256 + a[6]) * 256 + a[7]) * 256 + a[8] : a \in {x}})

\* a word is below 2^31
IsNat(x) == \E a \in {x} : a[1] = 0 /\ a[2] = 0 /\ a[3] = 0 /\ a[4] = 0 /\ a[5] < 128

\* ^, & and | on two bits
BitOp(op, p, q) ==
    CASE op = "xor" -> (p + q) % 2
      [] op = "and" -> p * q
      [] OTHER -> IF p + q > 0 THEN 1 ELSE 0

\* ^, & and | on two 4-bit numbers (at index [a + 1][b + 1]), bit by bit
NibbleOp(op) ==
    SubSeq([a \in 1..16 |->
        SubSeq([b \in 1..16 |->
            8 * BitOp(op, ((a - 1) \div 8) % 2, ((b - 1) \div 8) % 2)
            + 4 * BitOp(op, ((a - 1) \div 4) % 2, ((b - 1) \div 4) % 2)
            + 2 * BitOp(op, ((a - 1) \div 2) % 2, ((b - 1) \div 2) % 2)
            + BitOp(op, (a - 1) % 2, (b - 1) % 2)], 1, 16)], 1, 16)

NibbleXor == NibbleOp("xor")

NibbleAnd == NibbleOp("and")

NibbleOr == NibbleOp("or")

\* a table of NibbleOp applied to two bytes
ByteOp(table, a, b) ==
    16 * table[(a \div 16) + 1][(b \div 16) + 1] + table[(a % 16) + 1][(b % 16) + 1]

\* a table of NibbleOp applied to two words
WordOp(table, x, y) ==
    TheOne({<<ByteOp(table, a[1], b[1]), ByteOp(table, a[2], b[2]),
              ByteOp(table, a[3], b[3]), ByteOp(table, a[4], b[4]),
              ByteOp(table, a[5], b[5]), ByteOp(table, a[6], b[6]),
              ByteOp(table, a[7], b[7]), ByteOp(table, a[8], b[8])>> : a \in {x}, b \in {y}})

\* ^ on u64
WXor(x, y) == WordOp(NibbleXor, x, y)

\* & on u64
WAnd(x, y) == WordOp(NibbleAnd, x, y)

\* | on u64
WOr(x, y) == WordOp(NibbleOr, x, y)

\* ! on u64
WNot(x) ==
    TheOne({<<255 - a[1], 255 - a[2], 255 - a[3], 255 - a[4],
              255 - a[5], 255 - a[6], 255 - a[7], 255 - a[8]>> : a \in {x}})

\* << and >> on u64 by k < 64
WShl(x, k) == FromBits(SubSeq(ToBits(x), k + 1, W) \o SubSeq(ZeroBits, 1, k))

WShr(x, k) == FromBits(SubSeq(ZeroBits, 1, k) \o SubSeq(ToBits(x), 1, W - k))

\* the leading zero bits of each byte 0..255 (at index byte + 1)
ByteLeadingZeros ==
    SubSeq([n \in 1..256 |->
               IF n = 1 THEN 8
               ELSE (CHOOSE i \in 1..8 :
                        ByteBits[n][i] = 1 /\ \A j \in 1..(i - 1) : ByteBits[n][j] = 0) - 1],
           1, 256)

\* u64::leading_zeros
LeadingZeros(x) ==
    TheOne({IF a = Zero64 THEN W
            ELSE TheOne({8 * (k - 1) + ByteLeadingZeros[a[k] + 1] :
                         k \in {i \in 1..8 : a[i] # 0 /\ \A j \in 1..(i - 1) : a[j] = 0}})
            : a \in {x}})

\* x + y + cin over 64 bits, byte by byte from the least significant: the
\* wrapped sum and the carry out of bit 63
AddBytes(x, y, cin) ==
    LET s8 == x[8] + y[8] + cin
        s7 == x[7] + y[7] + (s8 \div 256)
        s6 == x[6] + y[6] + (s7 \div 256)
        s5 == x[5] + y[5] + (s6 \div 256)
        s4 == x[4] + y[4] + (s5 \div 256)
        s3 == x[3] + y[3] + (s4 \div 256)
        s2 == x[2] + y[2] + (s3 \div 256)
        s1 == x[1] + y[1] + (s2 \div 256)
    IN [val |-> <<s1 % 256, s2 % 256, s3 % 256, s4 % 256,
                  s5 % 256, s6 % 256, s7 % 256, s8 % 256>>,
        carry |-> s1 \div 256]

AddFrom(x, y, cin) == TheOne({AddBytes(a, b, cin) : a \in {x}, b \in {y}})

\* x + y: val is the wrapping sum, overflow tells that the true sum is >= 2^64
WAdd(x, y) ==
    TheOne({[val |-> s.val, overflow |-> s.carry = 1] : s \in {AddFrom(x, y, 0)}})

\* x - y: val is the wrapping difference, overflow tells that x < y
WSub(x, y) ==
    TheOne({[val |-> s.val, overflow |-> s.carry = 0] : s \in {AddFrom(x, WNot(y), 1)}})

\* the i32 a u64 is cast to by `as i32`: its low 32 bits in two's complement
AsI32(x) ==
    TheOne({IF a[5] < 128 THEN ToNat(a)
            ELSE ((((a[5] - 128) * 256 + a[6]) * 256 + a[7]) * 256 + a[8] - 2147483647) - 1
            : a \in {x}})

(***************************************************************************)
(* BitStream I/O (stream::BufferedWriter / stream::BufferedReader).  The   *)
(* stream module is not among the sources; it is modelled from the         *)
(* external contract of the specification (section 4.1).                   *)
(***************************************************************************)
\* BufferedWriter::new: nothing written yet
BufferedWriter_new == <<>>

\* Write::write_bit
write_bit(w, b) == Append(w, b)

\* Write::write_bits: the low n bits of value, most significant first
write_bits(w, value, n) == w \o LowBits(value, n)

\* the bytes of a bit sequence whose length is a multiple of 8
PackBytes(s) ==
    SubSeq([k \in 1..(Len(s) \div 8) |-> ByteVal(SubSeq(s, 8 * k - 7, 8 * k))],
           1, Len(s) \div 8)

\* Write::close: the final byte is padded with zero bits
Writer_close(w) ==
    PackBytes(w \o SubSeq(ZeroBits, 1, (8 - (Len(w) % 8)) % 8))

\* the bits of a byte buffer, most significant bit of each byte first
UnpackBytes(bytes) ==
    SubSeq([i \in 1..(8 * Len(bytes)) |->
               ByteBits[bytes[((i - 1) \div 8) + 1] + 1][((i - 1) % 8) + 1]],
           1, 8 * Len(bytes))

\* BufferedReader::new: a reader at the first bit of the buffer
BufferedReader_new(bytes) == [buf |-> UnpackBytes(bytes), pos |-> 0]

\* The contract says only that a read past the buffer signals a StreamError;
\* where a failed read leaves the reader is not fixed, so it is an input:
\* adv = TRUE leaves it at the end of the buffer, adv = FALSE where it was.
FailedRead(r, adv) ==
    [ok |-> FALSE, val |-> Zero64,
     r |-> [r EXCEPT !.pos = IF adv THEN Len(r.buf) ELSE r.pos]]

\* Read::read_bits: n bits zero-extended into the low n bits
read_bits(r, n, adv) ==
    IF r.pos + n <= Len(r.buf)
    THEN [ok |-> TRUE, val |-> ZeroExtend(SubSeq(r.buf, r.pos + 1, r.pos + n)),
          r |-> [r EXCEPT !.pos = r.pos + n]]
    ELSE FailedRead(r, adv)

\* Read::read_bit
read_bit(r, adv) == read_bits(r, 1, adv)

\* Read::peak_bits: as read_bits, without consuming
peak_bits(r, n) ==
    IF r.pos + n <= Len(r.buf)
    THEN [ok |-> TRUE, val |-> ZeroExtend(SubSeq(r.buf, r.pos + 1, r.pos + n)), r |-> r]
    ELSE [ok |-> FALSE, val |-> Zero64, r |-> r]

(***************************************************************************)
(* Predictors (predictor.rs).  A predictor is a record; kind tells the     *)
(* variant, and the fields a variant does not have stay at their zero.     *)
(* The unchecked + and - of DfcmPredictor wrap in a build without overflow *)
(* checks and panic in a build with them: checked tells which.  Indexing   *)
(* the table out of range panics in every build.                           *)
(***************************************************************************)
PredictorKinds == {"Simple", "Fcm", "Dfcm"}

\* SimplePredictor::new
SimplePredictor_new ==
    [kind |-> "Simple", next_value |-> Zero64, table |-> <<>>,
     last_hash |-> Zero64, last_value |-> Zero64, mask |-> Zero64]

\* FcmPredictor::new(size), size >= 1
FcmPredictor_new(size) ==
    [kind |-> "Fcm", next_value |-> Zero64, table |-> SubSeq([i \in 1..size |-> Zero64], 1, size),
     last_hash |-> Zero64, last_value |-> Zero64, mask |-> FromNat(size - 1)]

\* DfcmPredictor::new(size), size >= 1
DfcmPredictor_new(size) ==
    [kind |-> "Dfcm", next_value |-> Zero64, table |-> SubSeq([i \in 1..size |-> Zero64], 1, size),
     last_hash |-> Zero64, last_value |-> Zero64, mask |-> FromNat(size - 1)]

\* `self.last_hash as usize` as an index of the table (which starts at 1
\* here); 0 when it is not below the table's length
TableIndex(p) ==
    IF IsNat(p.last_hash) /\ ToNat(p.last_hash) < Len(p.table)
    THEN ToNat(p.last_hash) + 1
    ELSE 0

\* NextHash as it would be without `& self.mask`
NextHash_unmasked(p, x) == WXor(WShl(p.last_hash, 5), WShr(x, 50))

\* ((self.last_hash << 5) ^ (x >> 50)) & self.mask
NextHash(p, x) == WAnd(WXor(WShl(p.last_hash, 5), WShr(x, 50)), p.mask)

\* Predictor::predict_next: [val, panic]
predict_next(p, checked) ==
    CASE p.kind = "Simple" -> [val |-> p.next_value, panic |-> FALSE]
      [] p.kind = "Fcm" ->
            IF TableIndex(p) = 0 THEN [val |-> Zero64, panic |-> TRUE]
            ELSE [val |-> p.table[TableIndex(p)], panic |-> FALSE]
      [] OTHER ->
            IF TableIndex(p) = 0 THEN [val |-> Zero64, panic |-> TRUE]
            ELSE LET s == WAdd(p.table[TableIndex(p)], p.last_value)
                 IN [val |-> s.val, panic |-> checked /\ s.overflow]

\* Predictor::update: [p, panic]
update(p, value, checked) ==
    CASE p.kind = "Simple" -> [p |-> [p EXCEPT !.next_value = value], panic |-> FALSE]
      [] p.kind = "Fcm" ->
            IF TableIndex(p) = 0 THEN [p |-> p, panic |-> TRUE]
            ELSE [p |-> [p EXCEPT !.table[TableIndex(p)] = value,
                                  !.last_hash = NextHash(p, value)],
                  panic |-> FALSE]
      [] OTHER ->
            LET d == WSub(value, p.last_value)
            IN IF TableIndex(p) = 0 \/ (checked /\ d.overflow)
               THEN [p |-> p, panic |-> TRUE]
               ELSE [p |-> [p EXCEPT !.table[TableIndex(p)] = d.val,
                                     !.last_hash = NextHash(p, d.val),
                                     !.last_value = value],
                     panic |-> FALSE]

(***************************************************************************)
(* StdEncoder (encode/std_encoder.rs).  An encoder is the record of its    *)
(* fields; w is the bit sequence its writer holds.  Each method returns    *)
(* the encoder after it and whether it panicked (an unchecked - that       *)
(* overflows, in a build with overflow checks).                            *)
(***************************************************************************)
\* 0b1111 followed by 32 zero bits
END_MARKER == W16(0, 15, 0, 0)

END_MARKER_LEN == 36

\* StdEncoder::new as it would be with leading_zeros: 0, the decoder's
\* initial value
StdEncoder_new_zero_window(start, w, p) ==
    [time |-> start, delta |-> Zero64, predictor |-> p, leading_zeros |-> 0,
     first |-> TRUE, w |-> write_bits(w, start, 64)]

\* StdEncoder::new: the fields, and the 64-bit header written
StdEncoder_new(start, w, p) ==
    [time |-> start, delta |-> Zero64, predictor |-> p, leading_zeros |-> 64,
     first |-> TRUE, w |-> write_bits(w, start, 64)]

\* StdEncoder::write_first
write_first(e, time, value_bits, checked) ==
    LET d == WSub(time, e.time)
        u == update(e.predictor, value_bits, checked)
        w1 == write_bit(e.w, 0)
        w2 == write_bits(w1, d.val, 14)
        w3 == write_bits(w2, value_bits, 64)
    IN IF (checked /\ d.overflow) \/ u.panic
       THEN [e |-> e, panic |-> TRUE]
       ELSE [e |-> [e EXCEPT !.delta = d.val, !.time = time, !.predictor = u.p,
                             !.w = w3, !.first = TRUE],
             panic |-> FALSE]

\* `dod as u64` for the i32 dod: the low 32 bits sign-extended to 64
DodAsU64(x) ==
    TheOne({IF a[5] >= 128 THEN <<255, 255, 255, 255, a[5], a[6], a[7], a[8]>>
            ELSE <<0, 0, 0, 0, a[5], a[6], a[7], a[8]>> : a \in {x}})

\* dod_code as it would be with the ranges of two's complement, -64...63,
\* -256...255 and -2048...2047
dod_code_twos_complement(dod, payload) ==
    CASE dod = 0 -> <<0>>
      [] dod # 0 /\ dod >= -64 /\ dod <= 63 -> <<1, 0>> \o LowBits(payload, 7)
      [] (dod < -64 \/ dod > 63) /\ dod >= -256 /\ dod <= 255 ->
            <<1, 1, 0>> \o LowBits(payload, 9)
      [] (dod < -256 \/ dod > 255) /\ dod >= -2048 /\ dod <= 2047 ->
            <<1, 1, 1, 0>> \o LowBits(payload, 12)
      [] OTHER -> <<1, 1, 1, 1>> \o LowBits(payload, 32)

\* dod_code as it would be with the arm -63...64 after the arm -255...256,
\* which then takes its values
dod_code_arms_swapped(dod, payload) ==
    CASE dod = 0 -> <<0>>
      [] dod # 0 /\ dod >= -255 /\ dod <= 256 -> <<1, 1, 0>> \o LowBits(payload, 9)
      [] (dod < -255 \/ dod > 256) /\ dod >= -2047 /\ dod <= 2048 ->
            <<1, 1, 1, 0>> \o LowBits(payload, 12)
      [] OTHER -> <<1, 1, 1, 1>> \o LowBits(payload, 32)

\* the match of write_next_timestamp: the bits written for the delta of delta
\* dod (an i32), whose `as u64` is payload
dod_code(dod, payload) ==
    CASE dod = 0 -> <<0>>
      [] dod # 0 /\ dod >= -63 /\ dod <= 64 -> <<1, 0>> \o LowBits(payload, 7)
      [] (dod < -63 \/ dod > 64) /\ dod >= -255 /\ dod <= 256 ->
            <<1, 1, 0>> \o LowBits(payload, 9)
      [] (dod < -255 \/ dod > 256) /\ dod >= -2047 /\ dod <= 2048 ->
            <<1, 1, 1, 0>> \o LowBits(payload, 12)
      [] OTHER -> <<1, 1, 1, 1>> \o LowBits(payload, 32)

\* write_next_timestamp as it would be without the cast `as i32`: the match
\* is on the 64-bit difference, and one outside the range of i32 takes the
\* default arm
write_next_timestamp_i64(e, time, checked) ==
    LET delta == WSub(time, e.time)
        dod64 == WSub(delta.val, e.delta).val
        dod == IF dod64 = DodAsU64(dod64) THEN AsI32(dod64) ELSE 2147483647
    IN IF checked /\ delta.overflow
       THEN [e |-> e, panic |-> TRUE]
       ELSE [e |-> [e EXCEPT !.w = e.w \o dod_code(dod, DodAsU64(dod64)),
                             !.delta = delta.val, !.time = time],
             panic |-> FALSE]

\* StdEncoder::write_next_timestamp
write_next_timestamp(e, time, checked) ==
    LET delta == WSub(time, e.time)
        dod64 == WSub(delta.val, e.delta).val
        dod == AsI32(dod64)
    IN IF checked /\ delta.overflow
       THEN [e |-> e, panic |-> TRUE]
       ELSE [e |-> [e EXCEPT !.w = e.w \o dod_code(dod, DodAsU64(dod64)),
                             !.delta = delta.val, !.time = time],
             panic |-> FALSE]

\* xor_frame as it would be if the window were reused whenever the xor has
\* at least the stored number of leading zeros
xor_frame_reuse_wider(xor, self_leading_zeros) ==
    LET leading_zeros == LeadingZeros(xor)
    IN IF leading_zeros >= self_leading_zeros
       THEN [bits |-> <<1, 0>> \o LowBits(xor, 64 - self_leading_zeros),
             leading_zeros |-> self_leading_zeros]
       ELSE [bits |-> <<1, 1>> \o LowBits(FromNat(leading_zeros), 6)
                         \o LowBits(xor, 64 - leading_zeros),
             leading_zeros |-> leading_zeros]

\* the frame write_next_value writes for a non-zero xor, and the
\* leading_zeros it stores: [bits, leading_zeros]
xor_frame(xor, self_leading_zeros) ==
    LET leading_zeros == LeadingZeros(xor)
    IN IF leading_zeros = self_leading_zeros
       THEN [bits |-> <<1, 0>> \o LowBits(xor, 64 - self_leading_zeros),
             leading_zeros |-> self_leading_zeros]
       ELSE [bits |-> <<1, 1>> \o LowBits(FromNat(leading_zeros), 6)
                         \o LowBits(xor, 64 - leading_zeros),
             leading_zeros |-> leading_zeros]

\* write_next_value as it would be if the leading zeros of every xor were
\* stored, those of a zero xor (64) too
write_next_value_store_always(e, value_bits, checked) ==
    LET pr == predict_next(e.predictor, checked)
        xor == WXor(value_bits, pr.val)
        u == update(e.predictor, value_bits, checked)
        f == xor_frame(xor, e.leading_zeros)
    IN IF pr.panic \/ u.panic
       THEN [e |-> e, panic |-> TRUE, predicted |-> pr.val]
       ELSE IF xor = Zero64
       THEN [e |-> [e EXCEPT !.predictor = u.p, !.w = write_bit(e.w, 0),
                             !.leading_zeros = LeadingZeros(xor)],
             panic |-> FALSE, predicted |-> pr.val]
       ELSE [e |-> [e EXCEPT !.predictor = u.p, !.w = e.w \o f.bits,
                             !.leading_zeros = f.leading_zeros],
             panic |-> FALSE, predicted |-> pr.val]

\* StdEncoder::write_next_value; predicted is what predict_next returned
write_next_value(e, value_bits, checked) ==
    LET pr == predict_next(e.predictor, checked)
        xor == WXor(value_bits, pr.val)
        u == update(e.predictor, value_bits, checked)
        f == xor_frame(xor, e.leading_zeros)
    IN IF pr.panic \/ u.panic
       THEN [e |-> e, panic |-> TRUE, predicted |-> pr.val]
       ELSE IF xor = Zero64
       THEN [e |-> [e EXCEPT !.predictor = u.p, !.w = write_bit(e.w, 0)],
             panic |-> FALSE, predicted |-> pr.val]
       ELSE [e |-> [e EXCEPT !.predictor = u.p, !.w = e.w \o f.bits,
                             !.leading_zeros = f.leading_zeros],
             panic |-> FALSE, predicted |-> pr.val]

\* encode as it would be without `self.first = false` after write_first
encode_stays_first(e, dp, checked) ==
    IF e.first
    THEN TheOne({[e |-> f.e, panic |-> f.panic, ts |-> f.e, predicted |-> <<>>]
                 : f \in {write_first(e, dp.time, dp.value, checked)}})
    ELSE TheOne({IF t.panic
                 THEN [e |-> e, panic |-> TRUE, ts |-> e, predicted |-> <<>>]
                 ELSE TheOne({[e |-> v.e, panic |-> v.panic, ts |-> t.e,
                               predicted |-> <<v.predicted>>]
                              : v \in {write_next_value(t.e, dp.value, checked)}})
                 : t \in {write_next_timestamp(e, dp.time, checked)}})

\* Encode::encode for StdEncoder: dp = [time, value], value the i64's bits.
\* ts is the encoder after the timestamp has been written.
encode(e, dp, checked) ==
    IF e.first
    THEN TheOne({[e |-> [f.e EXCEPT !.first = f.panic /\ e.first], panic |-> f.panic,
                  ts |-> f.e, predicted |-> <<>>]
                 : f \in {write_first(e, dp.time, dp.value, checked)}})
    ELSE TheOne({IF t.panic
                 THEN [e |-> e, panic |-> TRUE, ts |-> e, predicted |-> <<>>]
                 ELSE TheOne({[e |-> v.e, panic |-> v.panic, ts |-> t.e,
                               predicted |-> <<v.predicted>>]
                              : v \in {write_next_value(t.e, dp.value, checked)}})
                 : t \in {write_next_timestamp(e, dp.time, checked)}})

\* close as it would be without the write of the end marker
close_without_marker(e) == Writer_close(e.w)

\* Encode::close for StdEncoder: the end marker, then the writer's bytes
close(e) == Writer_close(write_bits(e.w, END_MARKER, 36))

(***************************************************************************)
(* StdDecoder (decode/std_decoder.rs).  A decoder is the record of its     *)
(* fields; r is its reader.  A method returns the decoder after it and its *)
(* result: Ok with a value, Err with the error's name, or Panic (an        *)
(* unchecked + that overflows, in a build with overflow checks).  adv is   *)
(* where a failed read leaves the reader (see FailedRead).                 *)
(***************************************************************************)
Ok(v) == [tag |-> "Ok", err |-> "", val |-> v]

Err(name) == [tag |-> "Err", err |-> name, val |-> Zero64]

Panic == [tag |-> "Panic", err |-> "", val |-> Zero64]

\* StdDecoder::new
StdDecoder_new(r, p) ==
    [time |-> Zero64, delta |-> Zero64, predictor |-> p, leading_zeros |-> 0,
     first |-> TRUE, done |-> FALSE, r |-> r]

\* StdDecoder::read_initial_timestamp
read_initial_timestamp(d, adv) ==
    LET h == read_bits(d.r, 64, adv)
    IN IF ~h.ok
       THEN [d |-> [d EXCEPT !.r = h.r], res |-> Err("InvalidInitialTimestamp")]
       ELSE [d |-> [d EXCEPT !.r = h.r, !.time = h.val], res |-> Ok(h.val)]

\* read_first_timestamp as it would be without the comparison with
\* END_MARKER: any 36 bits that start with a one bit end the stream
read_first_timestamp_any_marker(d, adv, checked) ==
    LET i == read_initial_timestamp(d, adv)
        control_bit == peak_bits(i.d.r, 1)
        marker == read_bits(i.d.r, END_MARKER_LEN, adv)
        bit == read_bit(i.d.r, adv)
        delta == read_bits(bit.r, 14, adv)
        time == WAdd(i.d.time, delta.val)
    IN IF i.res.tag # "Ok" THEN i
       ELSE IF ~control_bit.ok THEN [d |-> i.d, res |-> Err("Stream")]
       ELSE IF control_bit.val = One64
       THEN [d |-> [i.d EXCEPT !.r = marker.r],
             res |-> IF ~marker.ok THEN Err("Stream") ELSE Err("EndOfStream")]
       ELSE IF ~bit.ok THEN [d |-> [i.d EXCEPT !.r = bit.r], res |-> Err("Stream")]
       ELSE IF ~delta.ok THEN [d |-> [i.d EXCEPT !.r = delta.r], res |-> Err("Stream")]
       ELSE IF checked /\ time.overflow
       THEN [d |-> [i.d EXCEPT !.r = delta.r, !.delta = delta.val], res |-> Panic]
       ELSE [d |-> [i.d EXCEPT !.r = delta.r, !.delta = delta.val, !.time = time.val],
             res |-> Ok(time.val)]

\* StdDecoder::read_first_timestamp
read_first_timestamp(d, adv, checked) ==
    LET i == read_initial_timestamp(d, adv)
        control_bit == peak_bits(i.d.r, 1)
        marker == read_bits(i.d.r, END_MARKER_LEN, adv)
        bit == read_bit(i.d.r, adv)
        delta == read_bits(bit.r, 14, adv)
        time == WAdd(i.d.time, delta.val)
    IN IF i.res.tag # "Ok" THEN i
       ELSE IF ~control_bit.ok THEN [d |-> i.d, res |-> Err("Stream")]
       ELSE IF control_bit.val = One64
       THEN [d |-> [i.d EXCEPT !.r = marker.r],
             res |-> IF ~marker.ok THEN Err("Stream")
                     ELSE IF marker.val = END_MARKER THEN Err("EndOfStream")
                     ELSE Err("InvalidEndOfStream")]
       ELSE IF ~bit.ok THEN [d |-> [i.d EXCEPT !.r = bit.r], res |-> Err("Stream")]
       ELSE IF ~delta.ok THEN [d |-> [i.d EXCEPT !.r = delta.r], res |-> Err("Stream")]
       ELSE IF checked /\ time.overflow
       THEN [d |-> [i.d EXCEPT !.r = delta.r, !.delta = delta.val], res |-> Panic]
       ELSE [d |-> [i.d EXCEPT !.r = delta.r, !.delta = delta.val, !.time = time.val],
             res |-> Ok(time.val)]

\* the loop of read_next_timestamp: up to 4 bits are read, until a zero bit;
\* control_bits counts the one bits
read_control_bits(r, adv) ==
    LET b1 == read_bit(r, adv)
        b2 == read_bit(b1.r, adv)
        b3 == read_bit(b2.r, adv)
        b4 == read_bit(b3.r, adv)
    IN IF ~b1.ok THEN [ok |-> FALSE, control_bits |-> 0, r |-> b1.r]
       ELSE IF b1.val # One64 THEN [ok |-> TRUE, control_bits |-> 0, r |-> b1.r]
       ELSE IF ~b2.ok THEN [ok |-> FALSE, control_bits |-> 1, r |-> b2.r]
       ELSE IF b2.val # One64 THEN [ok |-> TRUE, control_bits |-> 1, r |-> b2.r]
       ELSE IF ~b3.ok THEN [ok |-> FALSE, control_bits |-> 2, r |-> b3.r]
       ELSE IF b3.val # One64 THEN [ok |-> TRUE, control_bits |-> 2, r |-> b3.r]
       ELSE IF ~b4.ok THEN [ok |-> FALSE, control_bits |-> 3, r |-> b4.r]
       ELSE IF b4.val # One64 THEN [ok |-> TRUE, control_bits |-> 3, r |-> b4.r]
       ELSE [ok |-> TRUE, control_bits |-> 4, r |-> b4.r]

\* sign_extend as it would be with the test `dod > (1 << size)`, which no
\* payload of size bits passes
sign_extend_never(dod, size) ==
    IF ToNat(dod) > Pow2(size)
    THEN WOr(dod, WShl(Max64, size))
    ELSE dod

\* sign_extend as it would be with the test `dod >= (1 << (size - 1))`
sign_extend_msb(dod, size) ==
    IF ToNat(dod) >= Pow2(size - 1)
    THEN WOr(dod, WShl(Max64, size))
    ELSE dod

\* `if dod > (1 << (size - 1)) { dod = dod | (u64::max_value() << size) }`
sign_extend(dod, size) ==
    IF ToNat(dod) > Pow2(size - 1)
    THEN WOr(dod, WShl(Max64, size))
    ELSE dod

\* StdDecoder::read_next_timestamp
read_next_timestamp(d, adv, checked) ==
    LET c == read_control_bits(d.r, adv)
        same == WAdd(d.time, d.delta)
        escape == read_bits(c.r, 32, adv)
        size == CASE c.control_bits = 1 -> 7
                  [] c.control_bits = 2 -> 9
                  [] OTHER -> 12
        payload == read_bits(c.r, size, adv)
        dod == sign_extend(payload.val, size)
        delta == WAdd(d.delta, dod).val
        time == WAdd(d.time, delta).val
    IN IF ~c.ok THEN [d |-> [d EXCEPT !.r = c.r], res |-> Err("Stream")]
       ELSE IF c.control_bits = 0
       THEN IF checked /\ same.overflow
            THEN [d |-> [d EXCEPT !.r = c.r], res |-> Panic]
            ELSE [d |-> [d EXCEPT !.r = c.r, !.time = same.val], res |-> Ok(same.val)]
       ELSE IF c.control_bits = 4
       THEN [d |-> [d EXCEPT !.r = escape.r],
             res |-> IF ~escape.ok THEN Err("Stream")
                     ELSE IF escape.val = Zero64 THEN Err("EndOfStream")
                     ELSE Ok(escape.val)]
       ELSE IF ~payload.ok THEN [d |-> [d EXCEPT !.r = payload.r], res |-> Err("Stream")]
       ELSE [d |-> [d EXCEPT !.r = payload.r, !.delta = delta, !.time = time],
             res |-> Ok(time)]

\* read_first_value as it would be without predictor.update
read_first_value_no_update(d, adv, checked) ==
    LET bits == read_bits(d.r, 64, adv)
    IN IF ~bits.ok
       THEN [d |-> [d EXCEPT !.r = bits.r], res |-> Err("Stream"), predicted |-> <<>>]
       ELSE [d |-> [d EXCEPT !.r = bits.r], res |-> Ok(bits.val), predicted |-> <<>>]

\* StdDecoder::read_first_value
read_first_value(d, adv, checked) ==
    LET bits == read_bits(d.r, 64, adv)
        u == update(d.predictor, bits.val, checked)
    IN IF ~bits.ok
       THEN [d |-> [d EXCEPT !.r = bits.r], res |-> Err("Stream"), predicted |-> <<>>]
       ELSE IF u.panic
       THEN [d |-> [d EXCEPT !.r = bits.r], res |-> Panic, predicted |-> <<>>]
       ELSE [d |-> [d EXCEPT !.r = bits.r, !.predictor = u.p], res |-> Ok(bits.val),
             predicted |-> <<>>]

\* StdDecoder::read_next_value; predicted holds what predict_next returned,
\* when it was called
read_next_value(d, adv, checked) ==
    LET contol_bit == read_bit(d.r, adv)
        pr == predict_next(d.predictor, checked)
        zeros_bit == read_bit(contol_bit.r, adv)
        lz == read_bits(zeros_bit.r, 6, adv)
        leading_zeros == IF zeros_bit.val = One64
                         THEN ToNat(lz.val)
                         ELSE d.leading_zeros
        r2 == IF zeros_bit.val = One64 THEN lz.r ELSE zeros_bit.r
        size == 64 - leading_zeros
        bits == read_bits(r2, size, adv)
        value_bits == WXor(pr.val, bits.val)
        u == update(d.predictor, value_bits, checked)
    IN IF ~contol_bit.ok
       THEN [d |-> [d EXCEPT !.r = contol_bit.r], res |-> Err("Stream"), predicted |-> <<>>]
       ELSE IF pr.panic
       THEN [d |-> [d EXCEPT !.r = contol_bit.r], res |-> Panic, predicted |-> <<>>]
       ELSE IF contol_bit.val = Zero64
       THEN [d |-> [d EXCEPT !.r = contol_bit.r], res |-> Ok(pr.val),
             predicted |-> <<pr.val>>]
       ELSE IF ~zeros_bit.ok
       THEN [d |-> [d EXCEPT !.r = zeros_bit.r], res |-> Err("Stream"),
             predicted |-> <<pr.val>>]
       ELSE IF zeros_bit.val = One64 /\ ~lz.ok
       THEN [d |-> [d EXCEPT !.r = lz.r], res |-> Err("Stream"), predicted |-> <<pr.val>>]
       ELSE IF ~bits.ok
       THEN [d |-> [d EXCEPT !.r = bits.r, !.leading_zeros = leading_zeros],
             res |-> Err("Stream"), predicted |-> <<pr.val>>]
       ELSE IF u.panic
       THEN [d |-> [d EXCEPT !.r = bits.r, !.leading_zeros = leading_zeros],
             res |-> Panic, predicted |-> <<pr.val>>]
       ELSE [d |-> [d EXCEPT !.r = bits.r, !.leading_zeros = leading_zeros,
                             !.predictor = u.p],
             res |-> Ok(value_bits), predicted |-> <<pr.val>>]

\* latch_done as it would be had the closures not set self.done
latch_done_never(res) == FALSE

\* the map_err closures of next: `if err == Error::EndOfStream { self.done = true }`
latch_done(res) == res.tag = "Err" /\ res.err = "EndOfStream"

\* what next returns: a DataPoint, an error, or a panic
OkPoint(time, value) == [tag |-> "Ok", err |-> "", time |-> time, value |-> value]

ErrResult(name) == [tag |-> "Err", err |-> name, time |-> Zero64, value |-> Zero64]

PanicResult == [tag |-> "Panic", err |-> "", time |-> Zero64, value |-> Zero64]

\* the rest of next once the timestamp has been read with result t: the
\* value is read by first (read_first_value) or not (read_next_value)
next_value(t, first, adv, checked) ==
    IF t.res.tag = "Panic"
    THEN [d |-> t.d, res |-> PanicResult, predicted |-> <<>>]
    ELSE IF t.res.tag = "Err"
    THEN [d |-> [t.d EXCEPT !.done = latch_done(t.res)], res |-> ErrResult(t.res.err),
          predicted |-> <<>>]
    ELSE TheOne({
        IF v.res.tag = "Panic"
        THEN [d |-> v.d, res |-> PanicResult, predicted |-> v.predicted]
        ELSE IF v.res.tag = "Err"
        THEN [d |-> v.d, res |-> ErrResult(v.res.err), predicted |-> v.predicted]
        ELSE [d |-> v.d, res |-> OkPoint(t.res.val, v.res.val), predicted |-> v.predicted]
        : v \in {IF first THEN read_first_value(t.d, adv, checked)
                 ELSE read_next_value(t.d, adv, checked)}})

\* the timestamp half of Decode::next: `self.first = false` and
\* read_first_timestamp on the first call, read_next_timestamp afterwards
read_timestamp(d, adv, checked) ==
    IF d.first
    THEN read_first_timestamp([d EXCEPT !.first = FALSE], adv, checked)
    ELSE read_next_timestamp(d, adv, checked)

\* Decode::next for StdDecoder, t being what read_timestamp returned
next(d, t, adv, checked) ==
    IF d.done THEN [d |-> d, res |-> ErrResult("EndOfStream"), predicted |-> <<>>]
    ELSE next_value(t, d.first, adv, checked)

(***************************************************************************)
(* The state machine: one encoder, then one decoder over the bytes the     *)
(* encoder's close returned (Spec), or a decoder over a given byte buffer  *)
(* (SpecBytes).                                                            *)
(***************************************************************************)
VARIABLES
    enc,        \* the StdEncoder
    dec,        \* the StdDecoder
    phase,      \* "encoding", "closed" (close has returned bytes), "decoding"
    bytes,      \* the byte buffer: what close returned, or what the decoder is given
    intact,     \* the decoder reads the bytes of this encoder
    panicked,   \* a method has panicked
    sent,       \* the DataPoints passed to encode, in order
    frames,     \* per encode call, the bits it wrote for the timestamp (ts) and
                \* for the value (val), the bits written so far (end) and the
                \* encoder's leading_zeros after the call (lz)
    e_preds,    \* what predict_next returned to the encoder, in order
    d_preds,    \* what predict_next returned to the decoder, in order
    results     \* what the calls of next returned, in order

vars == <<enc, dec, phase, bytes, intact, panicked, sent, frames, e_preds, d_preds, results>>

\* the most DataPoints one encoder is given
MaxPoints == 3

\* the calls of next made beyond one per encoded DataPoint
ExtraCalls == 2

\* the size FcmPredictor::new and DfcmPredictor::new are given
TableSize == 2

\* the predictor both sides are constructed with
NewPredictor(kind) ==
    CASE kind = "Simple" -> SimplePredictor_new
      [] kind = "Fcm" -> FcmPredictor_new(TableSize)
      [] OTHER -> DfcmPredictor_new(TableSize)

\* start times: that of the repository's tests, and one above 2^32
Starts == {FromNat(1482268055), W16(1, 2, 3, 4)}

\* the steps in time from one DataPoint to the next
TimeSteps == {FromNat(5), FromNat(10), FromNat(5010)}

\* values: 0, 124 and 3 * 2^50
Values == {Zero64, FromNat(124), W16(12, 0, 0, 0)}

\* the bits of w written after the first n
Written(w, n) == SubSeq(w, n + 1, Len(w))

Init ==
    /\ \E start \in Starts, kind \in PredictorKinds :
          /\ enc = StdEncoder_new(start, BufferedWriter_new, NewPredictor(kind))
          /\ dec = StdDecoder_new(BufferedReader_new(<<>>), NewPredictor(kind))
    /\ phase = "encoding"
    /\ bytes = <<>>
    /\ intact = TRUE
    /\ panicked = FALSE
    /\ sent = <<>>
    /\ frames = <<>>
    /\ e_preds = <<>>
    /\ d_preds = <<>>
    /\ results = <<>>

\* encoder.encode(dp)
Encode(dp, checked) ==
    /\ phase = "encoding"
    /\ ~panicked
    /\ Len(sent) < MaxPoints
    /\ \E x \in {encode(enc, dp, checked)} :
          IF x.panic
          THEN /\ panicked' = TRUE
               /\ UNCHANGED <<enc, sent, frames, e_preds>>
          ELSE /\ enc' = x.e
               /\ sent' = Append(sent, dp)
               /\ frames' = Append(frames, [ts |-> Written(x.ts.w, Len(enc.w)),
                                            val |-> Written(x.e.w, Len(x.ts.w)),
                                            end |-> Len(x.e.w),
                                            lz |-> x.e.leading_zeros])
               /\ e_preds' = e_preds \o x.predicted
               /\ UNCHANGED panicked
    /\ UNCHANGED <<dec, phase, bytes, intact, d_preds, results>>

\* encoder.close()
Close ==
    /\ phase = "encoding"
    /\ ~panicked
    /\ bytes' = close(enc)
    /\ phase' = "closed"
    /\ UNCHANGED <<enc, dec, intact, panicked, sent, frames, e_preds, d_preds, results>>

\* StdDecoder::new(BufferedReader::new(bytes), p), p constructed as the encoder's was
NewDecoder ==
    /\ phase = "closed"
    /\ dec' = StdDecoder_new(BufferedReader_new(bytes), NewPredictor(enc.predictor.kind))
    /\ phase' = "decoding"
    /\ UNCHANGED <<enc, bytes, intact, panicked, sent, frames, e_preds, d_preds, results>>

\* the calls of next the model makes of one decoder
MaxCalls == 7

CallBound == IF intact THEN Len(sent) + ExtraCalls ELSE MaxCalls

\* decoder.next()
DecodeNext(adv, checked) ==
    /\ phase = "decoding"
    /\ ~panicked
    /\ Len(results) < CallBound
    /\ \E t \in {read_timestamp(dec, adv, checked)} :
       \E x \in {next(dec, t, adv, checked)} :
          /\ dec' = x.d
          /\ results' = Append(results, x.res)
          /\ d_preds' = d_preds \o x.predicted
          /\ panicked' = (x.res.tag = "Panic")
    /\ UNCHANGED <<enc, phase, bytes, intact, sent, frames, e_preds>>

\* the DataPoints an encoder at time t is given
Points(t) == {[time |-> WAdd(t, step).val, value |-> v] : step \in TimeSteps, v \in Values}

Next ==
    \/ \E dp \in Points(enc.time), checked \in BOOLEAN : Encode(dp, checked)
    \/ Close
    \/ NewDecoder
    \/ \E adv \in BOOLEAN, checked \in BOOLEAN : DecodeNext(adv, checked)

Spec == Init /\ [][Next]_vars

(***************************************************************************)
(* SpecDod: the same encoder and decoder, the DataPoints chosen by their   *)
(* delta of delta, at and around the limits of every bucket of             *)
(* write_next_timestamp.                                                   *)
(***************************************************************************)
\* t1 - start_time of the first DataPoint
FirstDelta == FromNat(8000)

\* the deltas of delta of the later DataPoints, as u64: the limits of the
\* buckets and their neighbours, 0, -5, two that need the escape bucket, and
\* 2^32, whose `as i32` is 0
Dods ==
    {FromNat(m) : m \in {0, 1, 64, 65, 256, 257, 2048, 2049, 5000}}
    \cup {WSub(Zero64, FromNat(m)).val : m \in {1, 5, 63, 64, 255, 256, 2047, 2048, 5000}}
    \cup {W16(0, 1, 0, 0)}

\* the DataPoints an encoder e is given
DodPoints(e) ==
    IF e.first
    THEN {[time |-> WAdd(e.time, FirstDelta).val, value |-> FromNat(124)]}
    ELSE {[time |-> WAdd(WAdd(e.time, e.delta).val, dod).val, value |-> FromNat(124)] :
          dod \in Dods}

InitDod ==
    /\ \E start \in Starts :
          /\ enc = StdEncoder_new(start, BufferedWriter_new, SimplePredictor_new)
          /\ dec = StdDecoder_new(BufferedReader_new(<<>>), SimplePredictor_new)
    /\ phase = "encoding"
    /\ bytes = <<>>
    /\ intact = TRUE
    /\ panicked = FALSE
    /\ sent = <<>>
    /\ frames = <<>>
    /\ e_preds = <<>>
    /\ d_preds = <<>>
    /\ results = <<>>

NextDod ==
    \/ \E dp \in DodPoints(enc), checked \in BOOLEAN : Encode(dp, checked)
    \/ Close
    \/ NewDecoder
    \/ \E adv \in BOOLEAN, checked \in BOOLEAN : DecodeNext(adv, checked)

SpecDod == InitDod /\ [][NextDod]_vars

(***************************************************************************)
(* SpecFirst: the same encoder and decoder, the first DataPoint at, just   *)
(* below and above 2^14 after the start time.                              *)
(***************************************************************************)
\* t1 - start_time of the first DataPoint: 2^14 - 1, 2^14 and 20000
FirstDeltas == {FromNat(16383), FromNat(16384), FromNat(20000)}

\* the DataPoints an encoder e is given
FirstPoints(e) ==
    IF e.first
    THEN {[time |-> WAdd(e.time, d).val, value |-> FromNat(124)] : d \in FirstDeltas}
    ELSE Points(e.time)

NextFirst ==
    \/ \E dp \in FirstPoints(enc), checked \in BOOLEAN : Encode(dp, checked)
    \/ Close
    \/ NewDecoder
    \/ \E adv \in BOOLEAN, checked \in BOOLEAN : DecodeNext(adv, checked)

SpecFirst == InitDod /\ [][NextFirst]_vars

(***************************************************************************)
(* SpecVal: the same encoder and decoder, the DataPoints ten apart in time *)
(* and their values chosen for the xor with the prediction: zero, the same *)
(* leading zeros as before, more, fewer, none and 63.                      *)
(***************************************************************************)
\* values: 0, 124, 125, 3 * 2^50 and -1
WindowValues == {Zero64, FromNat(124), FromNat(125), W16(12, 0, 0, 0), Max64}

\* the DataPoints an encoder at time t is given
ValPoints(t) == {[time |-> WAdd(t, FromNat(10)).val, value |-> v] : v \in WindowValues}

InitVal ==
    /\ \E kind \in PredictorKinds :
          /\ enc = StdEncoder_new(FromNat(1482268055), BufferedWriter_new, NewPredictor(kind))
          /\ dec = StdDecoder_new(BufferedReader_new(<<>>), NewPredictor(kind))
    /\ phase = "encoding"
    /\ bytes = <<>>
    /\ intact = TRUE
    /\ panicked = FALSE
    /\ sent = <<>>
    /\ frames = <<>>
    /\ e_preds = <<>>
    /\ d_preds = <<>>
    /\ results = <<>>

NextVal ==
    \/ \E dp \in ValPoints(enc.time), checked \in BOOLEAN : Encode(dp, checked)
    \/ Close
    \/ NewDecoder
    \/ \E adv \in BOOLEAN, checked \in BOOLEAN : DecodeNext(adv, checked)

SpecVal == InitVal /\ [][NextVal]_vars

(***************************************************************************)
(* SpecFrame: the same encoder and decoder, the DataPoints 10, 15 or 5010  *)
(* apart in time (delta-of-delta codes of 1, 9 and 36 bits) and their      *)
(* values 124 or -1 (value frames of all three shapes).                    *)
(***************************************************************************)
\* the DataPoints an encoder at time t is given
FramePoints(t) ==
    {[time |-> WAdd(t, step).val, value |-> v] :
        step \in {FromNat(10), FromNat(15), FromNat(5010)}, v \in {FromNat(124), Max64}}

NextFrame ==
    \/ \E dp \in FramePoints(enc.time), checked \in BOOLEAN : Encode(dp, checked)
    \/ Close
    \/ NewDecoder
    \/ \E adv \in BOOLEAN, checked \in BOOLEAN : DecodeNext(adv, checked)

SpecFrame == InitVal /\ [][NextFrame]_vars

(***************************************************************************)
(* SpecNarrow: the same encoder and decoder with SimplePredictor, the      *)
(* times non-decreasing, the first delta 0 or 2^14 - 1, every later delta  *)
(* of delta in -2047..2048, the values 124, 125 or -1 (xors of 0, 63 and   *)
(* 64 leading zeros, and 0).                                               *)
(***************************************************************************)
\* t1 - start_time of the first DataPoint: 0 and 2^14 - 1
NarrowFirstDeltas == {Zero64, FromNat(16383)}

\* the deltas of delta of the later DataPoints, as u64: 0, the limits of the
\* 7-bit bucket and the limits of the 12-bit bucket
NarrowDods ==
    {FromNat(m) : m \in {0, 64, 2048}}
    \cup {WSub(Zero64, FromNat(m)).val : m \in {63, 2047}}

\* the values of the DataPoints after the first: 124, 125 and -1
NarrowValues == {FromNat(124), FromNat(125), Max64}

\* the DataPoints an encoder e is given: none with a time before e.time
NarrowPoints(e) ==
    IF e.first
    THEN {[time |-> WAdd(e.time, d).val, value |-> FromNat(124)] :
              d \in NarrowFirstDeltas}
    ELSE {[time |-> WAdd(WAdd(e.time, e.delta).val, dod).val, value |-> v] :
              dod \in {x \in NarrowDods : IsNat(WAdd(e.delta, x).val)},
              v \in NarrowValues}

NextNarrow ==
    \/ \E dp \in NarrowPoints(enc), checked \in BOOLEAN : Encode(dp, checked)
    \/ Close
    \/ NewDecoder
    \/ \E adv \in BOOLEAN, checked \in BOOLEAN : DecodeNext(adv, checked)

SpecNarrow == InitDod /\ [][NextNarrow]_vars

(***************************************************************************)
(* SpecTable: an FcmPredictor or a DfcmPredictor of any size from 1 to     *)
(* MaxTable, held by an encoder, and the calls of predict_next and update  *)
(* made of it directly; sent holds the values given to update, e_preds     *)
(* what predict_next returned.                                             *)
(***************************************************************************)
\* the largest size FcmPredictor::new and DfcmPredictor::new are given
MaxTable == 5

\* the most calls of update made of one predictor
MaxUpdates == 3

\* the values given to update: their 14 high bits are 0, 1, 2, 3 and all ones
HashValues ==
    {FromNat(124), W16(4, 0, 0, 0), W16(8, 0, 0, 0), W16(12, 0, 0, 0), Max64}

InitTable ==
    /\ \E size \in 1..MaxTable :
       \E p \in {FcmPredictor_new(size), DfcmPredictor_new(size)} :
          /\ enc = StdEncoder_new(FromNat(1482268055), BufferedWriter_new, p)
          /\ dec = StdDecoder_new(BufferedReader_new(<<>>), p)
    /\ phase = "encoding"
    /\ bytes = <<>>
    /\ intact = TRUE
    /\ panicked = FALSE
    /\ sent = <<>>
    /\ frames = <<>>
    /\ e_preds = <<>>
    /\ d_preds = <<>>
    /\ results = <<>>

\* predictor.predict_next()
Predict(checked) ==
    /\ ~panicked
    /\ Len(e_preds) <= Len(sent)
    /\ \E pr \in {predict_next(enc.predictor, checked)} :
          IF pr.panic
          THEN panicked' = TRUE /\ UNCHANGED e_preds
          ELSE e_preds' = Append(e_preds, pr.val) /\ UNCHANGED panicked
    /\ UNCHANGED <<enc, dec, phase, bytes, intact, sent, frames, d_preds, results>>

\* predictor.update(value)
Update(value, checked) ==
    /\ ~panicked
    /\ Len(sent) < MaxUpdates
    /\ \E u \in {update(enc.predictor, value, checked)} :
          IF u.panic
          THEN panicked' = TRUE /\ UNCHANGED <<enc, sent>>
          ELSE /\ enc' = [enc EXCEPT !.predictor = u.p]
               /\ sent' = Append(sent, [time |-> enc.time, value |-> value])
               /\ UNCHANGED panicked
    /\ UNCHANGED <<dec, phase, bytes, intact, frames, e_preds, d_preds, results>>

NextTable ==
    \/ \E checked \in BOOLEAN : Predict(checked)
    \/ \E value \in HashValues, checked \in BOOLEAN : Update(value, checked)

SpecTable == InitTable /\ [][NextTable]_vars

(***************************************************************************)
(* SpecBytes: a decoder over a given byte buffer: the buffers of the       *)
(* decoder's tests, every prefix of them, two with a damaged marker and    *)
(* one whose times fall.                                                   *)
(***************************************************************************)
\* tests::create_new_decoder
EmptyStreamBytes == <<0, 0, 0, 0, 88, 89, 157, 151, 240, 0, 0, 0, 0>>

\* tests::decode_datapoint
SinglePointBytes ==
    <<0, 0, 0, 0, 88, 89, 157, 151, 0, 20, 127, 231, 174, 20, 122, 225, 71,
      175, 224, 0, 0, 0, 0>>

\* tests::decode_multiple_datapoints
FivePointBytes ==
    <<0, 0, 0, 0, 88, 89, 157, 151, 0, 20, 127, 231, 174, 20, 122, 225, 71,
      174, 204, 207, 30, 71, 145, 228, 121, 30, 96, 88, 61, 255, 253, 91, 214,
      245, 189, 111, 91, 3, 232, 1, 245, 97, 88, 86, 21, 133, 55, 202, 1, 17,
      15, 92, 40, 245, 194, 151, 128, 0, 0, 0, 0>>

Prefixes(b) == {SubSeq(b, 1, n) : n \in 0..Len(b)}

\* an empty stream and a one-point stream whose marker has a one bit in its
\* 32 zeros
DamagedBytes ==
    {<<0, 0, 0, 0, 88, 89, 157, 151, 240, 0, 1, 0, 0>>,
     <<0, 0, 0, 0, 88, 89, 157, 151, 0, 20, 127, 231, 174, 20, 122, 225, 71,
       175, 224, 0, 16, 0, 0>>}

\* a stream without end marker: start time 1482268055, a first DataPoint 10
\* later with value 0, a second with delta of delta -63 (the delta is then
\* -53) and value control bit 0, a third with delta of delta 0 and value
\* control bit 0, and 6 zero bits
FallingTimeBytes ==
    <<0, 0, 0, 0, 88, 89, 157, 151, 0, 20, 0, 0, 0, 0, 0, 0, 0, 1, 65, 0>>

Buffers ==
    Prefixes(EmptyStreamBytes) \cup Prefixes(SinglePointBytes)
    \cup Prefixes(FivePointBytes) \cup DamagedBytes \cup {FallingTimeBytes}

InitBytes ==
    /\ \E b \in Buffers, kind \in PredictorKinds :
          /\ bytes = b
          /\ dec = StdDecoder_new(BufferedReader_new(b), NewPredictor(kind))
    /\ enc = StdEncoder_new(Zero64, BufferedWriter_new, SimplePredictor_new)
    /\ phase = "decoding"
    /\ intact = FALSE
    /\ panicked = FALSE
    /\ sent = <<>>
    /\ frames = <<>>
    /\ e_preds = <<>>
    /\ d_preds = <<>>
    /\ results = <<>>

NextBytes == \E adv \in BOOLEAN, checked \in BOOLEAN : DecodeNext(adv, checked)

SpecBytes == InitBytes /\ [][NextBytes]_vars

(***************************************************************************)
(* SpecUntilError: a decoder over the same buffers and a caller that goes  *)
(* on calling next until a call returns an error.                          *)
(***************************************************************************)
\* a call of next has returned an error
ReturnedError == \E i \in 1..Len(results) : results[i].tag = "Err"

\* the caller has a call to make: no error yet, and fewer calls made than
\* the buffer has bits
CanCall ==
    /\ phase = "decoding"
    /\ ~panicked
    /\ ~ReturnedError
    /\ Len(results) <= Len(dec.r.buf)

\* decoder.next(), called until an error is returned
CallNext(adv, checked) ==
    /\ CanCall
    /\ \E t \in {read_timestamp(dec, adv, checked)} :
       \E x \in {next(dec, t, adv, checked)} :
          /\ dec' = x.d
          /\ results' = Append(results, x.res)
          /\ d_preds' = d_preds \o x.predicted
          /\ panicked' = (x.res.tag = "Panic")
    /\ UNCHANGED <<enc, phase, bytes, intact, sent, frames, e_preds>>

NextUntilError == \E adv \in BOOLEAN, checked \in BOOLEAN : CallNext(adv, checked)

SpecUntilError == InitBytes /\ [][NextUntilError]_vars

(***************************************************************************)
(* The properties.                                                         *)
(***************************************************************************)
\* Error::EndOfStream as next returns it
EndOfStream == ErrResult("EndOfStream")

\* the start time the encoder was constructed with: the header it wrote
StartTime == ZeroExtend(SubSeq(enc.w, 1, W))

\* the time of the j-th DataPoint the encoder was given, and the delta the
\* encoder holds after it (j = 0: after construction)
EncTime(j) == IF j = 0 THEN StartTime ELSE sent[j].time

EncDelta(j) == IF j = 0 THEN Zero64 ELSE WSub(EncTime(j), EncTime(j - 1)).val

\* the delta of delta of the k-th DataPoint, k >= 2, as a u64
EncDod(k) == WSub(EncDelta(k), EncDelta(k - 1)).val

\* the decoder is about to read the k-th record of the encoder's stream and
\* holds the time and the delta the encoder held before writing it
AtRecord(k) ==
    /\ intact
    /\ phase = "decoding"
    /\ ~panicked
    /\ Len(results) = k - 1
    /\ k <= Len(sent)
    /\ ~dec.done
    /\ dec.r.pos = (IF k = 1 THEN W ELSE frames[k - 1].end)
    /\ dec.time = EncTime(k - 1)
    /\ dec.delta = EncDelta(k - 1)

\* the decoder has read the k-th record and holds the time and the delta the
\* encoder held after writing it, and the DataPoint returned has that time
ReadRecord(k) ==
    /\ Len(results) = k
    /\ results[k].tag = "Ok"
    /\ results[k].time = EncTime(k)
    /\ dec.time = EncTime(k)
    /\ dec.delta = EncDelta(k)

\* the timestamp of the k-th record was written in the `1111` bucket
EscapeBucket(k) == Len(frames[k].ts) = 36 /\ SubSeq(frames[k].ts, 1, 4) = <<1, 1, 1, 1>>

\* the timestamp of the k-th record was written in the `10`, `110` or `1110`
\* bucket (7, 9 or 12 bits of payload)
NarrowBucket(k) ==
    \/ Len(frames[k].ts) = 9 /\ SubSeq(frames[k].ts, 1, 2) = <<1, 0>>
    \/ Len(frames[k].ts) = 12 /\ SubSeq(frames[k].ts, 1, 3) = <<1, 1, 0>>
    \/ Len(frames[k].ts) = 16 /\ SubSeq(frames[k].ts, 1, 4) = <<1, 1, 1, 0>>

\* C1: decoding the bytes of an encoder with an identically constructed
\* predictor returns the DataPoints the encoder was given, in order, and then
\* EndOfStream (every DataPoint of Spec has its first delta below 2^14 and a
\* delta of delta that fits 32 bits).
C1_RoundTrip ==
    intact =>
        \A i \in 1..Len(results) :
            IF i <= Len(sent)
            THEN results[i] = OkPoint(sent[i].time, sent[i].value)
            ELSE results[i] = EndOfStream

\* C2: the k-th value predict_next returns to the decoder is the k-th value
\* it returned to the encoder, for every k and every predictor.
C2_LockStep ==
    intact =>
        \A k \in 1..Len(d_preds) : k <= Len(e_preds) /\ d_preds[k] = e_preds[k]

\* C3: once next has returned EndOfStream, the next call of next returns
\* EndOfStream again and leaves the decoder, its reader included, as it was.
C3_StickyTerminal ==
    [][(/\ results # <<>>
        /\ results[Len(results)] = EndOfStream
        /\ results' # results)
       => (results'[Len(results')] = EndOfStream /\ dec' = dec)]_vars

\* C3 witness: after a DataPoint, EndOfStream has been returned twice in a row.
C3_Witness ==
    /\ Len(results) >= 3
    /\ results[1].tag = "Ok"
    /\ results[Len(results) - 1] = EndOfStream
    /\ results[Len(results)] = EndOfStream

\* C4: after next has returned an error, the decoder is done and every later
\* call of next returns EndOfStream.
C4_ErrorLatch ==
    /\ (results # <<>> /\ results[Len(results)].tag = "Err") => dec.done
    /\ \A i \in 1..(Len(results) - 1) :
          results[i].tag = "Err" => results[i + 1] = EndOfStream

\* C5: an encoder closed right after construction returns 13 bytes: the 8
\* bytes of the start time, then 1111, 32 zero bits and 4 zero bits of padding;
\* the first next of a decoder over them returns EndOfStream.
C5_EmptyStream ==
    (sent = <<>> /\ phase # "encoding") =>
        /\ Len(bytes) = 13
        /\ bytes = StartTime \o <<240, 0, 0, 0, 0>>
        /\ results # <<>> => results[1] = EndOfStream

\* C5 witness: a decoder over the bytes of an empty stream has returned
\* EndOfStream.
C5_Witness == sent = <<>> /\ results # <<>> /\ results[1] = EndOfStream

\* C6: the bits write_next_timestamp writes are never 1111 followed by 32
\* zero bits.
C6_MarkerOnlyAtClose ==
    \A k \in 2..Len(frames) : frames[k].ts # <<1, 1, 1, 1>> \o SubSeq(ZeroBits, 1, 32)

\* C6 witness: one timestamp was written in the escape bucket, and one had
\* the delta of delta 2^32, whose low 32 bits are zero.
C6_Witness ==
    /\ \E k \in 2..Len(frames) : EscapeBucket(k)
    /\ \E k \in 2..Len(frames) : EncDod(k) = W16(0, 1, 0, 0)

\* C7: a decoder in step with the encoder that reads a timestamp of the
\* escape bucket holds the encoder's delta and time afterwards, and returns
\* that time.
C7_EscapeDecode ==
    [][\A k \in 2..MaxPoints :
          (AtRecord(k) /\ EscapeBucket(k) /\ results' # results) => ReadRecord(k)']_vars

\* C8: a decoder in step with the encoder that reads a timestamp of a narrow
\* bucket (7, 9 or 12 bits) holds the encoder's delta and time afterwards, and
\* returns that time.
C8_NarrowDecode ==
    [][\A k \in 2..MaxPoints :
          (AtRecord(k) /\ NarrowBucket(k) /\ results' # results) => ReadRecord(k)']_vars

\* C8 witness: the decoder has read, in step, a record whose delta of delta
\* is -2047, the least of the 12-bit bucket, and one whose delta of delta is
\* 64, the greatest of the 7-bit bucket.
C8_Witness ==
    /\ Len(results) = 3
    /\ ReadRecord(3)
    /\ NarrowBucket(2)
    /\ NarrowBucket(3)
    /\ EncDod(2) = WSub(Zero64, FromNat(2047)).val
    /\ EncDod(3) = FromNat(64)

\* C9: the Last-Value encoder started at 1482268055, given the DataPoint
\* (1482268065, 124) and closed, returns the 23 bytes of tests::encode_datapoint.
C9_SinglePointWire ==
    (/\ phase # "encoding"
     /\ intact
     /\ enc.predictor.kind = "Simple"
     /\ StartTime = FromNat(1482268055)
     /\ sent = <<[time |-> FromNat(1482268065), value |-> FromNat(124)]>>)
    => bytes = SinglePointBytes

\* C10: the Last-Value decoder over the 23 bytes of tests::decode_datapoint
\* returns the DataPoint (1482268065, 124) first and EndOfStream second.
C10_SinglePointDecode ==
    (bytes = SinglePointBytes /\ ~intact /\ dec.predictor.kind = "Simple") =>
        /\ Len(results) >= 1 => results[1] = OkPoint(FromNat(1482268065), FromNat(124))
        /\ Len(results) >= 2 => results[2] = EndOfStream

\* the bits of the byte buffer the decoder was given
BufferBits == UnpackBytes(bytes)

\* what the first next returns for a buffer of more than 64 bits, by the
\* bits of the buffer b
FirstResult(b) ==
    IF b[65] = 1
    THEN IF Len(b) < 100 THEN ErrResult("Stream")
         ELSE IF SubSeq(b, 65, 100) = <<1, 1, 1, 1>> \o SubSeq(ZeroBits, 1, 32)
         THEN EndOfStream
         ELSE ErrResult("InvalidEndOfStream")
    ELSE IF Len(b) < 143 THEN ErrResult("Stream")
         ELSE OkPoint(WAdd(ZeroExtend(SubSeq(b, 1, 64)), ZeroExtend(SubSeq(b, 66, 79))).val,
                      ZeroExtend(SubSeq(b, 80, 143)))

\* C11: the first next returns InvalidInitialTimestamp when the buffer has
\* fewer than 64 bits; when the bit after the header is 1 it returns
\* EndOfStream if the 36 bits from it are END_MARKER, InvalidEndOfStream if
\* they are not and Stream if there are not 36; when that bit is 0 it returns
\* the first record: the header plus the next 14 bits, and the 64 bits after.
C11_FirstNext ==
    (~intact /\ results # <<>>) =>
        /\ Len(BufferBits) < 64 => results[1] = ErrResult("InvalidInitialTimestamp")
        /\ Len(BufferBits) > 64 => results[1] = FirstResult(BufferBits)

\* C11 witness: the first next has returned InvalidEndOfStream.
C11_Witness == ~intact /\ results # <<>> /\ results[1] = ErrResult("InvalidEndOfStream")

\* C12: a first DataPoint the encoder has accepted is less than 2^14 after
\* the start time, and a decoder of the stream returns its time.
C12_FirstDeltaChecked ==
    sent # <<>> =>
        /\ IsNat(EncDelta(1)) /\ ToNat(EncDelta(1)) < 16384
        /\ (intact /\ results # <<>>) => (results[1].tag = "Ok" /\ results[1].time = sent[1].time)

\* the decoder has returned a DataPoint for each of the k >= 1 DataPoints the
\* encoder was given, and nothing else
ReadAll ==
    /\ intact
    /\ phase = "decoding"
    /\ Len(sent) >= 1
    /\ Len(results) = Len(sent)
    /\ \A i \in 1..Len(results) : results[i].tag = "Ok"

\* C13: when the decoder has returned as many records as the encoder encoded,
\* its time, delta, leading_zeros and predictor are the encoder's.
C13_StateMirror ==
    ReadAll =>
        /\ dec.time = enc.time
        /\ dec.delta = enc.delta
        /\ dec.leading_zeros = enc.leading_zeros
        /\ dec.predictor = enc.predictor

\* the delta of delta of the k-th DataPoint truncated to a signed 32-bit integer
DodInt(k) == AsI32(EncDod(k))

\* the low w bits, w <= 12, of the two's complement of the integer n, most
\* significant first
TwosBits(n, w) ==
    SubSeq([i \in 1..w |-> ((IF n < 0 THEN n + Pow2(w) ELSE n) \div Pow2(w - i)) % 2], 1, w)

\* the timestamp bits the bucket table gives the k-th DataPoint
TableBits(k) ==
    IF DodInt(k) = 0 THEN <<0>>
    ELSE IF DodInt(k) \in -63..64 THEN <<1, 0>> \o TwosBits(DodInt(k), 7)
    ELSE IF DodInt(k) \in -255..256 THEN <<1, 1, 0>> \o TwosBits(DodInt(k), 9)
    ELSE IF DodInt(k) \in -2047..2048 THEN <<1, 1, 1, 0>> \o TwosBits(DodInt(k), 12)
    ELSE <<1, 1, 1, 1>> \o SubSeq(ToBits(EncDod(k)), 33, 64)

\* C14: for every DataPoint after the first, write_next_timestamp writes the
\* bits of the bucket table for its delta of delta, and leaves the encoder
\* with the DataPoint's time and its delta.
C14_BucketTable ==
    /\ \A k \in 2..Len(frames) : frames[k].ts = TableBits(k)
    /\ (phase = "encoding" /\ Len(sent) >= 2) =>
          /\ enc.time = sent[Len(sent)].time
          /\ enc.delta = EncDelta(Len(sent))

\* C14 witness: a delta of delta of -5 was written as 10 followed by 1111011.
C14_Witness ==
    \E k \in 2..Len(frames) :
        DodInt(k) = -5 /\ frames[k].ts = <<1, 0, 1, 1, 1, 1, 0, 1, 1>>

\* the width of the payload written with the timestamp of the k-th DataPoint
\* (0 for the single bit 0)
PayloadWidth(k) ==
    CASE Len(frames[k].ts) = 9 -> 7
      [] Len(frames[k].ts) = 12 -> 9
      [] Len(frames[k].ts) = 16 -> 12
      [] Len(frames[k].ts) = 36 -> 32
      [] OTHER -> 0

\* C15 as stated: for every non-zero delta of delta the payload width is the
\* narrowest of 7, 9, 12, 32 for which -2^(w-1) <= dod <= 2^(w-1) - 1.
C15_TwosComplementBucket ==
    \A k \in 2..Len(frames) :
        DodInt(k) # 0 =>
            PayloadWidth(k) = (IF DodInt(k) \in -64..63 THEN 7
                               ELSE IF DodInt(k) \in -256..255 THEN 9
                               ELSE IF DodInt(k) \in -2048..2047 THEN 12
                               ELSE 32)

\* C15 as amended: for every non-zero delta of delta the payload width is the
\* narrowest of 7, 9, 12 for which -(2^(w-1) - 1) <= dod <= 2^(w-1), and 32
\* when there is none.
C15_NarrowestBucket ==
    \A k \in 2..Len(frames) :
        DodInt(k) # 0 =>
            PayloadWidth(k) = (IF DodInt(k) \in -63..64 THEN 7
                               ELSE IF DodInt(k) \in -255..256 THEN 9
                               ELSE IF DodInt(k) \in -2047..2048 THEN 12
                               ELSE 32)

\* C15 witness: 64 was written with 7 bits of payload and -64 with 9.
C15_Witness ==
    /\ \E k \in 2..Len(frames) : DodInt(k) = 64 /\ PayloadWidth(k) = 7
    /\ \E k \in 2..Len(frames) : DodInt(k) = -64 /\ PayloadWidth(k) = 9

\* the control bits that come before a payload of w bits
ControlBits(w) ==
    CASE w = 7 -> <<1, 0>>
      [] w = 9 -> <<1, 1, 0>>
      [] OTHER -> <<1, 1, 1, 0>>

\* the next call of next reads a timestamp with a payload of w bits: the
\* reader is before the control bits of that bucket and the payload is there
ReadsPayload(w) ==
    /\ phase = "decoding"
    /\ ~panicked
    /\ ~dec.first
    /\ ~dec.done
    /\ dec.r.pos + Len(ControlBits(w)) + w <= Len(dec.r.buf)
    /\ SubSeq(dec.r.buf, dec.r.pos + 1, dec.r.pos + Len(ControlBits(w))) = ControlBits(w)

\* that payload, as a number
NextPayload(w) ==
    ToNat(ZeroExtend(SubSeq(dec.r.buf, dec.r.pos + Len(ControlBits(w)) + 1,
                            dec.r.pos + Len(ControlBits(w)) + w)))

\* the u64 p - 2^w: a payload p of w bits OR-ed with ~((1 << w) - 1)
Extended(p, w) == WSub(FromNat(p), FromNat(Pow2(w))).val

\* C16 as stated: a payload of 7, 9 or 12 bits that is at least 2^(w-1) is
\* sign-extended before it is wrapping-added to the delta, a smaller one is
\* added unchanged; the new delta is wrapping-added to the time.
C16_SignExtendMsb ==
    [][\A w \in {7, 9, 12} :
          (ReadsPayload(w) /\ results' # results) =>
              /\ dec'.delta = WAdd(dec.delta,
                                   IF NextPayload(w) >= Pow2(w - 1)
                                   THEN Extended(NextPayload(w), w)
                                   ELSE FromNat(NextPayload(w))).val
              /\ dec'.time = WAdd(dec.time, dec'.delta).val]_vars

\* C16 as amended: a payload of 7, 9 or 12 bits that is greater than 2^(w-1)
\* is sign-extended before it is wrapping-added to the delta; one that is
\* 2^(w-1) or less is added unchanged.
C16_SignExtend ==
    [][\A w \in {7, 9, 12} :
          (ReadsPayload(w) /\ results' # results) =>
              /\ dec'.delta = WAdd(dec.delta,
                                   IF NextPayload(w) > Pow2(w - 1)
                                   THEN Extended(NextPayload(w), w)
                                   ELSE FromNat(NextPayload(w))).val
              /\ dec'.time = WAdd(dec.time, dec'.delta).val]_vars

\* C16 witness: the decoder has read, in step, the payload 64 of 7 bits
\* (added as 64) and then the payload 65 of 7 bits (added as -63).
C16_Witness ==
    /\ Len(results) = 3
    /\ ReadRecord(3)
    /\ DodInt(2) = 64
    /\ DodInt(3) = -63
    /\ PayloadWidth(2) = 7
    /\ PayloadWidth(3) = 7

\* the zero bits before the first one bit of a word's 64, counted bit by bit
ZerosBefore(x) ==
    IF x = Zero64 THEN W
    ELSE (CHOOSE i \in 1..W : ToBits(x)[i] = 1 /\ \A j \in 1..(i - 1) : ToBits(x)[j] = 0) - 1

\* n as n binary digits of width w, most significant first
Binary(n, w) == [i \in 1..w |-> (n \div Pow2(w - i)) % 2]

\* the value frame of the policy for a xor and a stored leading_zeros, and
\* the leading_zeros stored afterwards
PolicyFrame(xor, stored) ==
    IF xor = Zero64
    THEN [bits |-> <<0>>, leading_zeros |-> stored]
    ELSE IF ZerosBefore(xor) = stored
    THEN [bits |-> <<1, 0>> \o SubSeq(ToBits(xor), stored + 1, W),
          leading_zeros |-> stored]
    ELSE [bits |-> <<1, 1>> \o Binary(ZerosBefore(xor), 6)
                      \o SubSeq(ToBits(xor), ZerosBefore(xor) + 1, W),
          leading_zeros |-> ZerosBefore(xor)]

OpensWindow(k) == Len(frames[k].val) > 8 /\ SubSeq(frames[k].val, 1, 2) = <<1, 1>>

\* the value frame of the k-th record has window bit 0: control bits 1, 0
ReusesWindow(k) == Len(frames[k].val) > 2 /\ SubSeq(frames[k].val, 1, 2) = <<1, 0>>

\* a record from the second to the k-th opened a window
Opened(k) == \E j \in 2..k : OpensWindow(j)

\* the decoder is about to read the k-th record of the encoder's stream
BeforeRecord(k) ==
    /\ intact
    /\ phase = "decoding"
    /\ ~panicked
    /\ ~dec.done
    /\ Len(results) = k - 1
    /\ dec.r.pos = frames[k - 1].end

\* C18: in an encoder's stream a value frame with window bit 0 comes only
\* after a frame with window bit 1 (the first non-zero xor opens a window),
\* and when the decoder is about to read a frame with window bit 0 its
\* leading_zeros is the one the encoder held for that record, read from an
\* opened window and not its initial 0.
C18_FirstWindowOpened ==
    \A k \in 2..Len(frames) :
        ReusesWindow(k) =>
            /\ Opened(k - 1)
            /\ BeforeRecord(k) => dec.leading_zeros = frames[k - 1].lz

\* C18 witness: the decoder has read a third record with window bit 0, after
\* a second that opened the window, and returned the encoder's value.
C18_Witness ==
    /\ Len(frames) = 3
    /\ OpensWindow(2)
    /\ ReusesWindow(3)
    /\ Len(results) = 3
    /\ results[3].tag = "Ok"
    /\ results[3].value = sent[3].value
    /\ dec.leading_zeros = frames[3].lz

\* C19 (I3): the encoder's leading_zeros is in 0..64 and is 64 only while no
\* window has been opened; every leading_zeros written in a 6-bit field is in
\* 0..63 and is the count the encoder stored; every value payload is 1 to 64
\* bits wide, 64 - leading_zeros, in the encoder's frames and for the
\* leading_zeros the decoder holds.
C19_LeadingZerosRange ==
    /\ enc.leading_zeros \in 0..64
    /\ enc.leading_zeros = 64 => ~Opened(Len(frames))
    /\ dec.leading_zeros \in 0..63
    /\ 64 - dec.leading_zeros \in 1..64
    /\ \A k \in 2..Len(frames) :
          /\ OpensWindow(k) =>
                /\ frames[k].lz \in 0..63
                /\ SubSeq(frames[k].val, 3, 8) = Binary(frames[k].lz, 6)
                /\ Len(frames[k].val) - 8 = 64 - frames[k].lz
                /\ Len(frames[k].val) - 8 \in 1..64
          /\ ReusesWindow(k) =>
                /\ Len(frames[k].val) - 2 = 64 - frames[k - 1].lz
                /\ Len(frames[k].val) - 2 \in 1..64

\* C19 witness: windows of 63 and of 0 leading zeros (payloads of 1 and of 64
\* bits) were written, and the decoder has read both.
C19_Witness ==
    /\ Len(frames) = 3
    /\ OpensWindow(2)
    /\ frames[2].lz = 63
    /\ Len(frames[2].val) = 9
    /\ OpensWindow(3)
    /\ frames[3].lz = 0
    /\ Len(frames[3].val) = 72
    /\ Len(results) = 3
    /\ results[3].tag = "Ok"
    /\ dec.leading_zeros = 0

\* C20: a DfcmPredictor's update(v) stores (v - last_value) mod 2^64 in the
\* table and v as last_value, and its predict_next returns
\* (table[last_hash] + last_value) mod 2^64, without failing: no call of
\* encode on an encoder with a DfcmPredictor panics.
C20_DfcmWrapping ==
    [][(enc.predictor.kind = "Dfcm" /\ phase = "encoding"
            /\ (sent' # sent \/ panicked' # panicked)) =>
          /\ ~panicked'
          /\ enc'.predictor.last_value = sent'[Len(sent')].value
          /\ enc'.predictor.table[TableIndex(enc.predictor)]
                = WSub(sent'[Len(sent')].value, enc.predictor.last_value).val
          /\ ~enc.first =>
                e_preds'[Len(e_preds')]
                    = WAdd(enc.predictor.table[TableIndex(enc.predictor)],
                           enc.predictor.last_value).val]_vars

\* a bit sequence is one code of the delta-of-delta table
IsDodCode(b) ==
    \/ b = <<0>>
    \/ Len(b) = 9 /\ SubSeq(b, 1, 2) = <<1, 0>>
    \/ Len(b) = 12 /\ SubSeq(b, 1, 3) = <<1, 1, 0>>
    \/ Len(b) = 16 /\ SubSeq(b, 1, 4) = <<1, 1, 1, 0>>
    \/ Len(b) = 36 /\ SubSeq(b, 1, 4) = <<1, 1, 1, 1>>

\* a bit sequence is one value frame: 0; 1, 0 and a payload of 1 to 64 bits;
\* or 1, 1, a 6-bit leading_zeros and a payload of 64 - leading_zeros bits
IsValueFrame(b) ==
    \/ b = <<0>>
    \/ Len(b) \in 3..66 /\ SubSeq(b, 1, 2) = <<1, 0>>
    \/ /\ Len(b) \in 9..72
       /\ SubSeq(b, 1, 2) = <<1, 1>>
       /\ SubSeq(b, 3, 8) = Binary(72 - Len(b), 6)

\* the 36 bits of the end marker
MarkerBits == <<1, 1, 1, 1>> \o SubSeq(ZeroBits, 1, 32)

\* C21: construction writes exactly the 64 bits of the start time; the first
\* encode writes exactly 79 bits (0, the first delta in 14 bits, the value's
\* 64 bits), updates the predictor with the value and asks it no prediction;
\* every later encode writes one delta-of-delta code and then one value frame;
\* first is false from the first encode on; close appends exactly the 36 bits
\* of the end marker (and the padding of the last byte) after the last record.
C21_FramingSequence ==
    /\ sent = <<>> => enc.w = ToBits(enc.time) /\ Len(enc.w) = 64 /\ enc.first
    /\ sent # <<>> =>
          /\ ~enc.first
          /\ frames[1].ts \o frames[1].val
                = <<0>> \o LowBits(EncDelta(1), 14) \o ToBits(sent[1].value)
          /\ frames[1].end = 64 + 79
          /\ Len(e_preds) = Len(sent) - 1
          /\ Len(sent) = 1 =>
                enc.predictor
                    = update(NewPredictor(enc.predictor.kind), sent[1].value, FALSE).p
          /\ Len(enc.w) = frames[Len(frames)].end
    /\ \A k \in 2..Len(frames) :
          /\ IsDodCode(frames[k].ts)
          /\ IsValueFrame(frames[k].val)
          /\ frames[k].end = frames[k - 1].end + Len(frames[k].ts) + Len(frames[k].val)
    /\ phase # "encoding" =>
          /\ 8 * Len(bytes) - (Len(enc.w) + 36) \in 0..7
          /\ BufferBits = enc.w \o MarkerBits
                            \o SubSeq(ZeroBits, 1, 8 * Len(bytes) - (Len(enc.w) + 36))

\* C21 witness: an encoder was given three DataPoints, wrote a 7-bit and a
\* 32-bit delta-of-delta code, a value frame that opened a window and one
\* that reused it, and was closed.
C21_Witness ==
    /\ phase = "closed"
    /\ Len(frames) = 3
    /\ ~enc.first
    /\ Len(frames[2].ts) = 9
    /\ Len(frames[3].ts) = 36
    /\ OpensWindow(2)
    /\ ReusesWindow(3)

\* x, as u64, is a delta of delta in -2047..2048
InNarrowRange(x) ==
    \/ IsNat(x) /\ ToNat(x) <= 2048
    \/ \E n \in {WSub(Zero64, x).val} : IsNat(n) /\ ToNat(n) <= 2047

\* the encoder has a SimplePredictor and was given DataPoints with
\* non-decreasing time, a first delta below 2^14 and later deltas of delta
\* in -2047..2048
NarrowInput ==
    /\ intact
    /\ enc.predictor.kind = "Simple"
    /\ \A k \in 1..Len(sent) : IsNat(EncDelta(k))
    /\ sent # <<>> => ToNat(EncDelta(1)) < 16384
    /\ \A k \in 2..Len(sent) : InNarrowRange(EncDod(k))

\* C22: with SimplePredictor on both sides, non-decreasing times, a first
\* delta in 0..2^14 - 1 and later deltas of delta in -2047..2048, no call
\* panics and the calls of next on the closed bytes return the DataPoints
\* given to encode, time and value, in order, and then EndOfStream.
C22_NarrowRoundTrip ==
    NarrowInput =>
        /\ ~panicked
        /\ Len(d_preds) <= Len(e_preds)
        /\ \A i \in 1..Len(results) :
              /\ i <= Len(sent) =>
                    /\ results[i].tag = "Ok"
                    /\ results[i].time = sent[i].time
                    /\ results[i].value = sent[i].value
              /\ i > Len(sent) => results[i] = EndOfStream

\* C22 witness: three DataPoints, the second repeating the first's value, the
\* third with the value -1 and an earlier delta (a negative delta of delta),
\* were returned by next in order, and then EndOfStream.
C22_Witness ==
    /\ NarrowInput
    /\ Len(sent) = 3
    /\ sent[2].value = sent[1].value
    /\ sent[3].value = Max64
    /\ NarrowBucket(2)
    /\ EncDod(3) = WSub(Zero64, FromNat(2047)).val
    /\ frames[2].val = <<0>>
    /\ OpensWindow(3)
    /\ Len(results) = 4
    /\ results[3] = OkPoint(sent[3].time, sent[3].value)
    /\ results[4] = EndOfStream

\* C23: for an FcmPredictor or DfcmPredictor of any size >= 1, a power of two
\* or not, after any calls of update last_hash is at most size - 1, so the
\* index predict_next and update use is inside the table.
C23_TableIndexInBounds ==
    enc.predictor.kind \in {"Fcm", "Dfcm"} =>
        /\ IsNat(enc.predictor.last_hash)
        /\ ToNat(enc.predictor.last_hash) <= Len(enc.predictor.table) - 1
        /\ TableIndex(enc.predictor) \in 1..Len(enc.predictor.table)

\* C23 witness: a DfcmPredictor of size 3 has been updated three times and
\* its last_hash is 2, the last entry of its table.
C23_Witness ==
    /\ enc.predictor.kind = "Dfcm"
    /\ Len(enc.predictor.table) = 3
    /\ Len(sent) = 3
    /\ Len(e_preds) > 0
    /\ ToNat(enc.predictor.last_hash) = 2

\* C24: over any byte buffer every call of next that returns a DataPoint
\* moves the reader at least 2 bits forward, and a caller that goes on
\* calling next is eventually returned an error: after every call either an
\* error has been returned or the next call can be made (the decoder has not
\* panicked, and fewer calls were made than the buffer has bits).
C24_DecoderTerminates ==
    [][/\ \A k \in 1..(Len(dec.r.buf) + 1) :
            (Len(results) = k - 1 /\ Len(results') = k /\ results'[k].tag = "Ok") =>
                dec'.r.pos >= dec.r.pos + 2
       /\ ReturnedError' \/ CanCall']_vars

====
